---- MODULE Spec2Model ----
(***************************************************************************)
(* A model of the research digest generator: its date-range filter         *)
(* (enhanced_rss_feeds.is_in_date_range), its date parsing                 *)
(* (enhanced_rss_feeds.parse_date_from_rss), its feed aggregator           *)
(* (enhanced_rss_feeds.fetch_papers_from_all_feeds), its history tracker   *)
(* (paper_tracker) and its pipeline (main_pipeline, improved_summarize).   *)
(*                                                                         *)
(* The specifications of the module:                                       *)
(*   SpecRange     one call of is_in_date_range on drawn arguments         *)
(*   Spec          one run of fetch_papers_from_all_feeds                  *)
(*   SpecTracker   a sequence of filter_new_papers, get_stats and          *)
(*                 reset_history calls, and a process that dies in a call  *)
(*   SpecPipeline  one run of main_pipeline.py from its command line       *)
(*   SpecFeedsCli  the start of enhanced_rss_feeds.py from its command     *)
(*                 line                                                    *)
(*   SpecDates     one call of parse_date_from_rss, or one pass over the   *)
(*                 date fields of a feed entry                             *)
(*   SpecStats     one call of get_stats on a ledger                       *)
(*   SpecConcurrent  two processes calling filter_new_papers at once       *)
(***************************************************************************)
EXTENDS Integers, Sequences, FiniteSets, TLC

(***************************************************************************)
(* Python's Optional[T]: None is the empty tuple, a value v is <<v>>.      *)
(***************************************************************************)
None == <<>>

Some(v) == <<v>>

IsNone(x) == x = <<>>

Val(x) == x[1]

Optional(S) == {None} \cup {Some(x) : x \in S}

\* dict.get(k, d)
Get(dict, k, d) == IF k \in DOMAIN dict THEN dict[k] ELSE d

\* Python's `x if x else d` on an Optional[int]: None and 0 are both falsy.
OrElse(x, d) == IF IsNone(x) \/ Val(x) = 0 THEN d ELSE Val(x)

(***************************************************************************)
(* Program constants and bounds.                                           *)
(***************************************************************************)
\* effective_end_year = 2099  (the "far future" year)
FarFutureYear == 2099

\* effective_end_month = 12
FarFutureMonth == 12

\* the crude year extraction accepts 2000 <= year <= 2100
SaneYearMin == 2000

SaneYearMax == 2100

\* --start-year default of the module's command line
DefaultStartYear == 2024

\* how many years after DefaultStartYear the drawn dates reach
MaxYearOffset == 1

\* the years dates are drawn from: around the start year, and around the
\* far-future year
Years ==
    ((DefaultStartYear - 1) .. (DefaultStartYear + MaxYearOffset))
        \cup {FarFutureYear, FarFutureYear + 1}

\* the months dates and ranges are drawn from (both ends of the year and the
\* months around a start month of 10)
MonthSample == {1, 2, 9, 10, 12}

VARIABLES
    \* ---- is_in_date_range: its arguments, its return value
    paper_date,             \* None or <<[year, month]>> (a parsed datetime)
    paper_year_fallback,    \* None or <<year>>
    paper_month_fallback,   \* None or <<month>>
    start_year,             \* int
    start_month,            \* None or <<month>>
    end_year,               \* None or <<year>>
    end_month,              \* None or <<month>>
    filter_result,          \* None before the call, <<TRUE/FALSE>> after
    \* ---- fetch_papers_from_all_feeds
    apc,                    \* position in the run
    max_per_feed,           \* argument
    feed_idx,               \* index of the feed being fetched (1-based)
    accepted,               \* entries that passed the date filter so far
    domain_papers,          \* papers of the feed being fetched
    all_papers,             \* merged list
    unique_papers,          \* the returned list
    raised_feeds,           \* feeds whose fetch/processing raised
    undated_seen,           \* an entry none of whose date fields yields was read
    year_defaulted,         \* line 336 has given a paper the year start_year
    \* ---- paper_tracker
    tpc,                    \* position in filter_new_papers
    ledger_file,            \* data/processed_papers.json
    papers,                 \* argument of the running filter_new_papers
    history,                \* local: load_history()
    updated_history,        \* local: history.copy(), then updated
    new_papers,             \* local: result being built
    loop_i,                 \* local: index of the next paper of the loop
    today,                  \* local: str(datetime.now().date())
    call_ledger,            \* the ledger file as it was when the call began
    last_call,              \* None, or <<the previous completed call>>
    reset_since,            \* reset_history ran since the previous call
    stats,                  \* None, or <<what get_stats returned since the last filter call>>
    \* ---- main_pipeline
    ppc,                    \* position in the run of main_pipeline.py
    args,                   \* the command line, as argparse reads it
    api_key,                \* whether OPENAI_API_KEY is set
    exit_code,              \* None while running, <<status>> once the process ended
    exit_cause,             \* which line ended the run
    step_log,               \* the steps completed so far, in order
    raw_papers,             \* main's raw_papers
    normalized_papers,      \* main's normalized_papers
    enhanced_papers,        \* summarize_all_papers' enhanced_papers
    call_failed,            \* per paper: whether its summarization call raised
    enhanced_data,          \* None, or <<what summarize_all_papers returned>>
    viz_files,              \* indices of the papers whose diagrams exist
    pdf_path,               \* None, or <<what render_digest returned>>
    \* ---- parse_date_from_rss and the date fields of one entry
    dpc,                    \* which of the two is being called
    date_str,               \* argument of parse_date_from_rss
    parse_result,           \* None before the call, <<its outcome>> after
    entry_dates,            \* the six date fields of the entry being read
    resolution,             \* None, or <<what lines 249-286 left in
                            \*   published_date, year, month>>
    \* ---- two processes inside filter_new_papers at once
    cpc,                    \* per process: its position in the call
    cpapers,                \* per process: its argument
    chistory,               \* per process: history
    cupdated,               \* per process: updated_history
    cnew,                   \* per process: new_papers
    ci,                     \* per process: index of the next paper
    cwriter                 \* None, or <<the process that wrote the file last>>

rangeVars ==
    <<paper_date, paper_year_fallback, paper_month_fallback, start_year,
      start_month, end_year, end_month, filter_result>>

aggVars ==
    <<apc, max_per_feed, feed_idx, accepted, domain_papers, all_papers,
      unique_papers, raised_feeds, undated_seen, year_defaulted>>

trkVars ==
    <<tpc, ledger_file, papers, history, updated_history, new_papers, loop_i,
      today, call_ledger, last_call, reset_since, stats>>

pipeVars ==
    <<ppc, args, api_key, exit_code, exit_cause, step_log, raw_papers,
      normalized_papers, enhanced_papers, call_failed, enhanced_data,
      viz_files, pdf_path>>

dateVars == <<dpc, date_str, parse_result, entry_dates, resolution>>

concVars == <<cpc, cpapers, chistory, cupdated, cnew, ci, cwriter>>

vars == <<rangeVars, aggVars, trkVars, pipeVars, dateVars, concVars>>

(***************************************************************************)
(* is_in_date_range                                                        *)
(***************************************************************************)
MutResolveCandidate(pd, yfb, mfb) ==
    IF ~IsNone(yfb) THEN Some([year |-> Val(yfb), month |-> OrElse(mfb, 1)])
    ELSE IF ~IsNone(pd) THEN Some([year |-> Val(pd).year, month |-> Val(pd).month])
    ELSE None

\* lines 101-115: the candidate's (year, month), or None when neither
\* paper_date nor paper_year_fallback is given
ResolveCandidate(pd, yfb, mfb) ==
    IF ~IsNone(pd) THEN Some([year |-> Val(pd).year, month |-> Val(pd).month])
    ELSE IF ~IsNone(yfb) THEN Some([year |-> Val(yfb), month |-> OrElse(mfb, 1)])
    ELSE None

MutEffectiveEndValue(sy, ey, em) ==
    IF IsNone(ey) /\ IsNone(em)
    THEN FarFutureYear * 12 + FarFutureMonth
    ELSE OrElse(ey, sy) * 12 + OrElse(em, 1)

\* lines 131-137, 144: the effective end as an ordinal year*12+month
EffectiveEndValue(sy, ey, em) ==
    IF IsNone(ey) /\ IsNone(em)
    THEN FarFutureYear * 12 + FarFutureMonth
    ELSE OrElse(ey, sy) * 12 + OrElse(em, 12)

\* line 139, 143
StartValue(sy, sm) == sy * 12 + OrElse(sm, 1)

\* line 123: no month filtering
YearOnlyMode(sm, em) == IsNone(sm) /\ IsNone(em)

MutPassesStartYear(y, sy) == y > sy

\* line 118 (negated): the year check
PassesStartYear(y, sy) == y >= sy

MutInOrdinalRange(c, sy, sm, ey, em) ==
    /\ sy <= c.year
    /\ (IsNone(sm) \/ Val(sm) <= c.month)
    /\ (IsNone(ey) \/ c.year <= Val(ey))
    /\ (IsNone(em) \/ c.month <= Val(em))

\* lines 141-146: start_value <= paper_value <= end_value
InOrdinalRange(c, sy, sm, ey, em) ==
    LET paper_value == c.year * 12 + c.month
    IN  /\ StartValue(sy, sm) <= paper_value
        /\ paper_value <= EffectiveEndValue(sy, ey, em)

MutUnresolvedResult(sm) == IsNone(sm)

\* lines 108-115: the return value for a candidate with no date at all
UnresolvedResult(sm) == FALSE

is_in_date_range(pd, yfb, mfb, sy, sm, ey, em) ==
    LET c == ResolveCandidate(pd, yfb, mfb)
    IN  IF IsNone(c) THEN UnresolvedResult(sm)
        ELSE IF ~PassesStartYear(Val(c).year, sy) THEN FALSE
        ELSE IF YearOnlyMode(sm, em) THEN TRUE
        ELSE InOrdinalRange(Val(c), sy, sm, ey, em)

(***************************************************************************)
(* fetch_papers_from_all_feeds                                             *)
(*                                                                         *)
(* Strings are tuples of characters.  A date string is kept as the three   *)
(* things the code reads from it: what dateutil's fuzzy parse returns      *)
(* (None when it raises ValueError), what int(s[:4]) returns and what      *)
(* int(s[5:7]) returns (None when int() raises ValueError).                *)
(***************************************************************************)
\* the feeds of get_comprehensive_feeds (10 in the program)
NumFeeds == 2

\* the entries of all feeds together that pass the date filter in one run
MaxAccepted == 2

\* the largest max_per_feed argument drawn
MaxPerFeed == 2

DateStr(parsed, head4, mid2) ==
    Some([parsed |-> parsed, head4 |-> head4, mid2 |-> mid2])

FullDate(y, m) == DateStr(Some([year |-> y, month |-> m]), Some(y), Some(m))

\* the six date fields of an entry, in the order of date_fields:
\* prism_coverdate, prism_publicationdate, published, updated, dc_date, pubDate
DateConfigs ==
    { <<None, None, None, None, None, None>>,
      <<FullDate(DefaultStartYear, 6), None, None, None, None, None>>,
      <<None, None, FullDate(DefaultStartYear + 1, 1), None, None, None>>,
      <<None, None, FullDate(DefaultStartYear - 1, 12), None, None, None>>,
      <<None, None, None, None,
        DateStr(None, Some(DefaultStartYear), Some(13)), None>>,
      <<DateStr(None, None, None), None, None,
        FullDate(DefaultStartYear, 6), None, None>>,
      <<None, None, None, DateStr(None, Some(SaneYearMin - 1), Some(6)),
        None, None>> }

Titles == { <<>>, <<"A">>, <<" ", "a">> }

\* the DOI that lines 216-219 cut out of entry.link ("" when the link holds none)
Dois == { <<>>, <<"10.1145/1">> }

Entries == [title : Titles, doi : Dois, dates : DateConfigs]

\* the ranges a run is started with
AggRanges ==
    { [sy |-> DefaultStartYear, sm |-> None, ey |-> None, em |-> None],
      [sy |-> DefaultStartYear, sm |-> Some(6),
       ey |-> Some(DefaultStartYear + 1), em |-> Some(1)] }

Unresolved == [published_date |-> None, year |-> None, month |-> None]

MutCrudeExtract(d) ==
    IF IsNone(d.head4) THEN None
    ELSE IF SaneYearMin <= Val(d.head4) /\ Val(d.head4) <= SaneYearMax
    THEN Some([published_date |-> None,
               year |-> d.head4,
               month |-> IF ~IsNone(d.mid2) /\ 0 <= Val(d.mid2) /\ Val(d.mid2) <= 12
                         THEN d.mid2 ELSE None])
    ELSE Some([published_date |-> None, year |-> d.head4, month |-> None])

\* lines 269-286: the crude year/month extraction from one date string;
\* None when the field yields nothing and the next field is tried
CrudeExtract(d) ==
    IF IsNone(d.head4) THEN None
    ELSE IF SaneYearMin <= Val(d.head4) /\ Val(d.head4) <= SaneYearMax
    THEN Some([published_date |-> None,
               year |-> d.head4,
               month |-> IF ~IsNone(d.mid2) /\ 1 <= Val(d.mid2) /\ Val(d.mid2) <= 12
                         THEN d.mid2 ELSE None])
    ELSE None

\* lines 261-286: what one date field yields
FieldYield(f) ==
    IF IsNone(f) THEN None
    ELSE IF ~IsNone(Val(f).parsed)
    THEN Some([published_date |-> Val(f).parsed,
               year |-> Some(Val(Val(f).parsed).year),
               month |-> Some(Val(Val(f).parsed).month)])
    ELSE CrudeExtract(Val(f))

RECURSIVE ResolveFrom(_, _)
\* lines 249-286: the first field, from position i on, that yields
ResolveFrom(fields, i) ==
    IF i > Len(fields) THEN Unresolved
    ELSE IF ~IsNone(FieldYield(fields[i])) THEN Val(FieldYield(fields[i]))
    ELSE ResolveFrom(fields, i + 1)

RECURSIVE MutResolveFrom(_, _)
MutResolveFrom(fields, i) ==
    IF i < 1 THEN Unresolved
    ELSE IF ~IsNone(FieldYield(fields[i])) THEN Val(FieldYield(fields[i]))
    ELSE MutResolveFrom(fields, i - 1)

MutResolveDate(fields) == MutResolveFrom(fields, Len(fields))

\* lines 231-286: what the loop over date_fields leaves in published_date,
\* year and month
ResolveDate(fields) == ResolveFrom(fields, 1)

RECURSIVE StrOfNat(_)
\* str(year) for a year >= 0: its decimal digits
StrOfNat(n) == IF n < 10 THEN <<n>> ELSE StrOfNat(n \div 10) \o <<n % 10>>

RECURSIVE IntOfDigits(_, _)
IntOfDigits(s, acc) ==
    IF s = <<>> THEN acc ELSE IntOfDigits(Tail(s), acc * 10 + Head(s))

\* int(s): None stands for ValueError/TypeError
IntOfStr(s) ==
    IF s = <<>> \/ \E i \in 1 .. Len(s) : s[i] \notin 0 .. 9 THEN None
    ELSE Some(IntOfDigits(s, 0))

\* lines 334-362: the paper built from an entry that passed the filter
\* (authors, abstract, url, venue and citations are carried along unread
\* by the rest of the function and are left out)
MakePaper(e, r, sy, domain) ==
    [title |-> e.title,
     doi |-> e.doi,
     year |-> StrOfNat(IF IsNone(r.year) THEN sy ELSE Val(r.year)),
     month |-> r.month,
     published_date |-> r.published_date,
     research_domain |-> domain]

Lower(ch) == IF ch = "A" THEN "a" ELSE ch

RECURSIVE LStrip(_)
LStrip(s) == IF s # <<>> /\ Head(s) = " " THEN LStrip(Tail(s)) ELSE s

RECURSIVE RStrip(_)
RStrip(s) ==
    IF s # <<>> /\ s[Len(s)] = " " THEN RStrip(SubSeq(s, 1, Len(s) - 1)) ELSE s

\* line 394: title.lower().strip()
NormTitle(t) == RStrip(LStrip([i \in 1 .. Len(t) |-> Lower(t[i])]))

\* line 405: whether a paper without DOI is kept
KeepByTitle(title, seen_titles) == title # <<>> /\ title \notin seen_titles

RECURSIVE Dedup(_, _, _)
\* lines 388-409
Dedup(ps, seen_dois, seen_titles) ==
    IF ps = <<>> THEN <<>>
    ELSE LET p == Head(ps)
             title == NormTitle(p.title)
         IN  IF p.doi # <<>>
             THEN IF p.doi \notin seen_dois
                  THEN <<p>> \o Dedup(Tail(ps), seen_dois \cup {p.doi}, seen_titles)
                  ELSE Dedup(Tail(ps), seen_dois, seen_titles)
             ELSE IF KeepByTitle(title, seen_titles)
                  THEN <<p>> \o Dedup(Tail(ps), seen_dois, seen_titles \cup {title})
                  ELSE Dedup(Tail(ps), seen_dois, seen_titles)

MutSortKey(p) ==
    IF IsNone(IntOfStr(p.year)) THEN 0 ELSE Val(IntOfStr(p.year)) * 12

\* lines 414-420
sort_key(p) ==
    IF IsNone(IntOfStr(p.year)) THEN 0
    ELSE Val(IntOfStr(p.year)) * 12 + OrElse(p.month, 1)

RECURSIVE InsertDesc(_, _)
\* p goes after every element whose key is >= its own (the sort is stable)
InsertDesc(sorted, p) ==
    IF sorted = <<>> THEN <<p>>
    ELSE IF sort_key(Head(sorted)) >= sort_key(p)
    THEN <<Head(sorted)>> \o InsertDesc(Tail(sorted), p)
    ELSE <<p>> \o sorted

RECURSIVE SortDesc(_)
\* line 422: unique_papers.sort(key=sort_key, reverse=True)
SortDesc(ps) ==
    IF ps = <<>> THEN <<>>
    ELSE InsertDesc(SortDesc(SubSeq(ps, 1, Len(ps) - 1)), ps[Len(ps)])

MutAfterFeedException(all, dom) == all \o dom

\* lines 381-384: the merged list after a feed's try block raised
AfterFeedException(all, dom) == all

InFeed == apc = "fetch" /\ feed_idx <= NumFeeds

\* lines 212-373: one entry of the current feed, from its date fields to the
\* append and the max_per_feed break
ProcessEntry ==
    /\ InFeed
    /\ accepted < MaxAccepted
    /\ \E e \in Entries :
         LET r == ResolveDate(e.dates)
             pass == is_in_date_range(r.published_date, r.year, r.month,
                                      start_year, start_month, end_year, end_month)
             grown == Append(domain_papers,
                             MakePaper(e, r, start_year, feed_idx))
         IN  /\ undated_seen' = (undated_seen \/ r = Unresolved)
             /\ year_defaulted' = (year_defaulted \/ (pass /\ IsNone(r.year)))
             /\ IF ~pass
                THEN UNCHANGED <<accepted, domain_papers, all_papers, feed_idx>>
                ELSE /\ accepted' = accepted + 1
                     /\ IF Len(grown) >= max_per_feed
                        THEN /\ all_papers' = all_papers \o grown
                             /\ domain_papers' = <<>>
                             /\ feed_idx' = feed_idx + 1
                        ELSE /\ domain_papers' = grown
                             /\ UNCHANGED <<all_papers, feed_idx>>
    /\ UNCHANGED <<apc, max_per_feed, unique_papers, raised_feeds>>
    /\ UNCHANGED <<rangeVars, trkVars, pipeVars, dateVars, concVars>>

\* lines 212, 375-379: the feed has no more entries
EndFeed ==
    /\ InFeed
    /\ all_papers' = all_papers \o domain_papers
    /\ domain_papers' = <<>>
    /\ feed_idx' = feed_idx + 1
    /\ UNCHANGED <<apc, max_per_feed, accepted, unique_papers, raised_feeds,
                   undated_seen, year_defaulted>>
    /\ UNCHANGED <<rangeVars, trkVars, pipeVars, dateVars, concVars>>

\* lines 204-205, 381-384: feedparser.parse or the processing of an entry
\* raises; the except clause logs and goes on to the next feed
FeedRaises ==
    /\ InFeed
    /\ all_papers' = AfterFeedException(all_papers, domain_papers)
    /\ domain_papers' = <<>>
    /\ raised_feeds' = raised_feeds \cup {feed_idx}
    /\ feed_idx' = feed_idx + 1
    /\ UNCHANGED <<apc, max_per_feed, accepted, unique_papers, undated_seen,
                   year_defaulted>>
    /\ UNCHANGED <<rangeVars, trkVars, pipeVars, dateVars, concVars>>

\* lines 386-444: after the last feed, deduplicate, sort and return
Finish ==
    /\ apc = "fetch"
    /\ feed_idx > NumFeeds
    /\ unique_papers' = SortDesc(Dedup(all_papers, {}, {}))
    /\ apc' = "done"
    /\ UNCHANGED <<max_per_feed, feed_idx, accepted, domain_papers, all_papers,
                   raised_feeds, undated_seen, year_defaulted>>
    /\ UNCHANGED <<rangeVars, trkVars, pipeVars, dateVars, concVars>>

InitAgg ==
    /\ apc = "fetch"
    /\ max_per_feed \in 0 .. MaxPerFeed
    /\ feed_idx = 1
    /\ accepted = 0
    /\ domain_papers = <<>>
    /\ all_papers = <<>>
    /\ unique_papers = <<>>
    /\ raised_feeds = {}
    /\ undated_seen = FALSE
    /\ year_defaulted = FALSE

IdleAgg ==
    /\ apc = "idle"
    /\ max_per_feed = 0
    /\ feed_idx = 0
    /\ accepted = 0
    /\ domain_papers = <<>>
    /\ all_papers = <<>>
    /\ unique_papers = <<>>
    /\ raised_feeds = {}
    /\ undated_seen = FALSE
    /\ year_defaulted = FALSE

NextAgg == ProcessEntry \/ EndFeed \/ FeedRaises \/ Finish

\* the command lines of enhanced_rss_feeds.py drawn: every option absent or
\* given, with years around the default start year
FeedsCommandLines ==
    [start_year : {DefaultStartYear, DefaultStartYear + 1},
     start_month : Optional({3, 6}),
     end_year : Optional((DefaultStartYear - 1) .. (DefaultStartYear + 1)),
     end_month : Optional({1, 6}),
     max_per_feed : 1 .. MaxPerFeed]

\* lines 447-466: the script parses its command line and calls
\* fetch_papers_from_all_feeds with what it read
FeedsMain ==
    /\ apc = "cli"
    /\ apc' = "fetch"
    /\ feed_idx' = 1
    /\ UNCHANGED <<max_per_feed, accepted, domain_papers, all_papers,
                   unique_papers, raised_feeds, undated_seen, year_defaulted>>
    /\ UNCHANGED <<rangeVars, trkVars, pipeVars, dateVars, concVars>>

\* the script has been started with a command line
InitFeedsMain ==
    /\ \E cl \in FeedsCommandLines :
         /\ start_year = cl.start_year
         /\ start_month = cl.start_month
         /\ end_year = cl.end_year
         /\ end_month = cl.end_month
         /\ max_per_feed = cl.max_per_feed
    /\ paper_date = None
    /\ paper_year_fallback = None
    /\ paper_month_fallback = None
    /\ filter_result = None
    /\ apc = "cli"
    /\ feed_idx = 0
    /\ accepted = 0
    /\ domain_papers = <<>>
    /\ all_papers = <<>>
    /\ unique_papers = <<>>
    /\ raised_feeds = {}
    /\ undated_seen = FALSE
    /\ year_defaulted = FALSE

(***************************************************************************)
(* paper_tracker                                                           *)
(*                                                                         *)
(* The ledger file is absent, holds bytes json.load rejects ("corrupt",    *)
(* which includes the empty file open(..., 'w') leaves before the dump),   *)
(* or holds a JSON object: a function from identifiers to entries.         *)
(***************************************************************************)
\* the longest batch passed to filter_new_papers
MaxBatch == 2

TrackedPapers ==
    { [doi |-> <<"10.1145/1">>, title |-> <<"A">>, venue |-> <<"CHI">>, year |-> <<2, 0, 2, 4>>],
      [doi |-> <<"10.1145/1">>, title |-> <<"B">>, venue |-> <<"CHI">>, year |-> <<2, 0, 2, 4>>],
      [doi |-> <<>>, title |-> <<"A">>, venue |-> <<>>, year |-> <<2, 0, 2, 5>>] }

RECURSIVE SeqsUpTo(_, _)
\* the sequences over S of length at most n
SeqsUpTo(S, n) ==
    IF n = 0 THEN { <<>> }
    ELSE LET shorter == SeqsUpTo(S, n - 1)
         IN  shorter \cup { Append(q, x) : q \in shorter, x \in S }

Batches == SeqsUpTo(TrackedPapers, MaxBatch)

EmptyDict == [k \in {} |-> None]

AbsentFile == [kind |-> "absent", data |-> EmptyDict]

CorruptFile == [kind |-> "corrupt", data |-> EmptyDict]

JsonFile(d) == [kind |-> "json", data |-> d]

MutLoadRaises(file) == file.kind = "corrupt"

\* lines 16-20: whether an exception leaves load_history; the bare except
\* returns {} for whatever open or json.load raise
LoadRaises(file) == FALSE

\* lines 13-21: load_history
load_history(file) == IF file.kind = "json" THEN file.data ELSE EmptyDict

\* line 45: identifier = doi if doi else title
Identifier(paper) == IF paper.doi # <<>> THEN paper.doi ELSE paper.title

\* the days the calls are made on
Days == {"2025-01-01", "2025-01-02"}

\* lines 51-57
Entry(paper, day) ==
    [title |-> paper.title, processed_date |-> day, doi |-> paper.doi,
     venue |-> paper.venue, year |-> paper.year]

DictSet(d, k, v) == [x \in DOMAIN d \cup {k} |-> IF x = k THEN v ELSE d[x]]

MutAlreadyProcessed(identifier, hist, updated) == identifier \in DOMAIN updated

MutNeverProcessed(identifier, hist, updated) == FALSE

\* line 47: the test is against the ledger as loaded, not the staged copy
AlreadyProcessed(identifier, hist, updated) == identifier \in DOMAIN hist

MutSavedHistory(hist, updated) == hist

\* line 60: what save_history is given
SavedHistory(hist, updated) == updated

\* lines 34-38: the call begins: load the ledger, copy it
CallFilter ==
    /\ tpc = "idle"
    /\ \E batch \in Batches : papers' = batch
    /\ history' = load_history(ledger_file)
    /\ updated_history' = load_history(ledger_file)
    /\ new_papers' = <<>>
    /\ loop_i' = 1
    /\ today' \in Days
    /\ call_ledger' = ledger_file
    /\ tpc' = IF LoadRaises(ledger_file) THEN "raised" ELSE "loop"
    /\ stats' = None
    /\ UNCHANGED <<ledger_file, last_call, reset_since>>
    /\ UNCHANGED <<rangeVars, aggVars, pipeVars, dateVars, concVars>>

\* lines 40-58: one paper of the batch
LoopStep ==
    /\ tpc = "loop"
    /\ loop_i <= Len(papers)
    /\ LET paper == papers[loop_i]
           identifier == Identifier(paper)
       IN  IF AlreadyProcessed(identifier, history, updated_history)
           THEN UNCHANGED <<new_papers, updated_history>>
           ELSE /\ new_papers' = Append(new_papers, paper)
                /\ updated_history' = DictSet(updated_history, identifier, Entry(paper, today))
    /\ loop_i' = loop_i + 1
    /\ UNCHANGED <<tpc, ledger_file, papers, history, today, call_ledger,
                   last_call, reset_since, stats>>
    /\ UNCHANGED <<rangeVars, aggVars, pipeVars, dateVars, concVars>>

\* lines 25-26: save_history opens the file for writing, which empties it
SaveOpen ==
    /\ tpc = "loop"
    /\ loop_i > Len(papers)
    /\ ledger_file' = CorruptFile
    /\ tpc' = "dump"
    /\ UNCHANGED <<papers, history, updated_history, new_papers, loop_i,
                   today, call_ledger, last_call, reset_since, stats>>
    /\ UNCHANGED <<rangeVars, aggVars, pipeVars, dateVars, concVars>>

\* lines 27, 61: json.dump writes the ledger, and the call returns new_papers
SaveDump ==
    /\ tpc = "dump"
    /\ ledger_file' = JsonFile(SavedHistory(history, updated_history))
    /\ tpc' = "returned"
    /\ UNCHANGED <<papers, history, updated_history, new_papers, loop_i,
                   today, call_ledger, last_call, reset_since, stats>>
    /\ UNCHANGED <<rangeVars, aggVars, pipeVars, dateVars, concVars>>

\* the caller takes the result; the call is now the previous call
TakeResult ==
    /\ tpc = "returned"
    /\ last_call' = Some([batch |-> papers, result |-> new_papers,
                          ledger_before |-> call_ledger])
    /\ reset_since' = FALSE
    /\ tpc' = "idle"
    /\ UNCHANGED <<ledger_file, papers, history, updated_history, new_papers,
                   loop_i, today, call_ledger, stats>>
    /\ UNCHANGED <<rangeVars, aggVars, pipeVars, dateVars, concVars>>

\* line 69: the year of an entry that has none
UnknownYear == <<"U", "n", "k", "n", "o", "w", "n">>

MutCountEntry(years, year) == DictSet(years, year, 1)

\* line 70: years[year] = years.get(year, 0) + 1
CountEntry(years, year) == DictSet(years, year, Get(years, year, 0) + 1)

RECURSIVE YearCounts(_, _)
\* lines 67-70: the loop over history.values(), over the entries under keys
YearCounts(hist, keys) ==
    IF keys = {} THEN EmptyDict
    ELSE LET k == CHOOSE x \in keys : TRUE
         IN  CountEntry(YearCounts(hist, keys \ {k}),
                        Get(hist[k], "year", UnknownYear))

\* lines 63-75: get_stats
StatsOf(hist) ==
    [total_processed |-> Cardinality(DOMAIN hist),
     by_year |-> YearCounts(hist, DOMAIN hist)]

\* lines 63-75: a call of get_stats between two calls of filter_new_papers
get_stats ==
    /\ tpc = "idle"
    /\ IF LoadRaises(ledger_file)
       THEN tpc' = "raised" /\ UNCHANGED stats
       ELSE stats' = Some(StatsOf(load_history(ledger_file))) /\ UNCHANGED tpc
    /\ UNCHANGED <<ledger_file, papers, history, updated_history, new_papers,
                   loop_i, today, call_ledger, last_call, reset_since>>
    /\ UNCHANGED <<rangeVars, aggVars, pipeVars, dateVars, concVars>>

\* lines 34-61: the process dies while filter_new_papers runs (killed, power
\* loss): the locals are gone, the file stays as it is
Crash ==
    /\ tpc \in {"loop", "dump"}
    /\ tpc' = "crashed"
    /\ UNCHANGED <<ledger_file, papers, history, updated_history, new_papers,
                   loop_i, today, call_ledger, last_call, reset_since, stats>>
    /\ UNCHANGED <<rangeVars, aggVars, pipeVars, dateVars, concVars>>

MutRemovedFile(file) == file

\* lines 79-80: the ledger file after os.remove
RemovedFile(file) == AbsentFile

\* lines 77-81: reset_history removes the ledger file
reset_history ==
    /\ tpc = "idle"
    /\ ledger_file' = RemovedFile(ledger_file)
    /\ reset_since' = TRUE
    /\ UNCHANGED <<tpc, papers, history, updated_history, new_papers, loop_i,
                   today, call_ledger, last_call, stats>>
    /\ UNCHANGED <<rangeVars, aggVars, pipeVars, dateVars, concVars>>

InitTrk ==
    /\ tpc = "idle"
    /\ ledger_file \in {AbsentFile, CorruptFile, JsonFile(EmptyDict)}
    /\ papers = <<>>
    /\ history = EmptyDict
    /\ updated_history = EmptyDict
    /\ new_papers = <<>>
    /\ loop_i = 1
    /\ today \in Days
    /\ call_ledger = ledger_file
    /\ last_call = None
    /\ reset_since = FALSE
    /\ stats = None

IdleTrk ==
    /\ tpc = "off"
    /\ ledger_file = AbsentFile
    /\ papers = <<>>
    /\ history = EmptyDict
    /\ updated_history = EmptyDict
    /\ new_papers = <<>>
    /\ loop_i = 1
    /\ today = "2025-01-01"
    /\ call_ledger = AbsentFile
    /\ last_call = None
    /\ reset_since = FALSE
    /\ stats = None

NextTrk ==
    \/ CallFilter \/ LoopStep \/ SaveOpen \/ SaveDump \/ TakeResult
    \/ get_stats \/ Crash \/ reset_history

\* papers with four identifiers: two of one year, one of another, and one
\* without a year (line 56 then writes '')
StatsPapers ==
    { [doi |-> <<"10.1145/1">>, title |-> <<"A">>, venue |-> <<"CHI">>, year |-> <<2, 0, 2, 4>>],
      [doi |-> <<"10.1145/2">>, title |-> <<"B">>, venue |-> <<"CHI">>, year |-> <<2, 0, 2, 4>>],
      [doi |-> <<>>, title |-> <<"A">>, venue |-> <<>>, year |-> <<2, 0, 2, 5>>],
      [doi |-> <<>>, title |-> <<"B">>, venue |-> <<>>, year |-> <<>>] }

\* the ledgers filter_new_papers can have written from them
StatsLedgers ==
    { AbsentFile, CorruptFile }
        \cup UNION { { JsonFile([k \in { Identifier(q) : q \in S } |->
                                   LET q == CHOOSE x \in S : Identifier(x) = k
                                   IN  Entry(q, day[q])]) :
                         day \in [S -> Days] } :
                     S \in SUBSET StatsPapers }

\* get_stats is about to be called on a ledger
InitStats ==
    /\ tpc = "idle"
    /\ ledger_file \in StatsLedgers
    /\ papers = <<>>
    /\ history = EmptyDict
    /\ updated_history = EmptyDict
    /\ new_papers = <<>>
    /\ loop_i = 1
    /\ today = "2025-01-02"
    /\ call_ledger = ledger_file
    /\ last_call = None
    /\ reset_since = FALSE
    /\ stats = None

NextStats == get_stats

(***************************************************************************)
(* main_pipeline                                                           *)
(*                                                                         *)
(* Texts the program only carries along are TLA+ strings; a text the       *)
(* program takes apart (a year, a sample size) is a tuple of one-character *)
(* strings.                                                                *)
(***************************************************************************)
\* sys.exit(1) in main's except clauses and after a missing PDF
ExitFailure == 1

\* sys.exit(1) after a fetch that returned no paper
ExitNoPapers == 1

\* sys.exit(1) when OPENAI_API_KEY is not set
ExitNoKey == 1

\* the status argparse exits with on a command line it rejects
ExitUsage == 2

\* the interpreter's status after an exception nothing caught
ExitUncaught == 1

\* the status of a run that reaches the end of the script
ExitSuccess == 0

\* generate_sample_digest: max_results=3, start_year=2022
SampleMaxResults == 3

SampleStartYear == 2022

\* the largest --max-papers drawn
MaxPapersArg == 2

Chars4(a, b, c, d) == <<a, b, c, d>>

\* lines 47-98 (the abstracts are shortened)
sample_papers ==
    << [title |-> "Using fNIRS to Assess Cognitive Activity During Gameplay",
        authors |-> "Klarkowski et al.", abstract |-> "fNIRS study",
        doi |-> "10.1145/3549519", venue |-> "CHI PLAY 2022",
        year |-> Chars4("2", "0", "2", "2"), citations |-> 47,
        url |-> "https://dl.acm.org/doi/10.1145/3549519"],
       [title |-> "Aiming, Pointing, Steering",
        authors |-> "Hougaard, Knoche", abstract |-> "core task analysis",
        doi |-> "10.1145/3677057", venue |-> "ACM HCI 2024",
        year |-> Chars4("2", "0", "2", "4"), citations |-> 15,
        url |-> "https://dl.acm.org/doi/10.1145/3677057"],
       [title |-> "PopSignAI",
        authors |-> "Sogani et al.", abstract |-> "sign recognition",
        doi |-> "10.1145/3706599.3720321", venue |-> "CHI 2025",
        year |-> Chars4("2", "0", "2", "5"), citations |-> 3,
        url |-> "https://dl.acm.org/doi/10.1145/3706599.3720321"],
       [title |-> "Automatic Identification of Game Stuttering",
        authors |-> "Guglielmi et al.", abstract |-> "stutter detection",
        doi |-> "10.1145/3695992", venue |-> "ACM TOSEM 2025",
        year |-> Chars4("2", "0", "2", "5"), citations |-> 8,
        url |-> "https://dl.acm.org/doi/10.1145/3695992"],
       [title |-> "Player Engagement Dynamics in MOBA Games",
        authors |-> "Chen, Rodriguez, Tanaka", abstract |-> "engagement",
        doi |-> "10.1145/3571234", venue |-> "CHI PLAY 2023",
        year |-> Chars4("2", "0", "2", "3"), citations |-> 31,
        url |-> "https://dl.acm.org/doi/10.1145/3571234"] >>

DigitChars == <<"0", "1", "2", "3", "4", "5", "6", "7", "8", "9">>

IsDigitChar(ch) == \E i \in 1 .. 10 : DigitChars[i] = ch

DigitOf(ch) == (CHOOSE i \in 1 .. 10 : DigitChars[i] = ch) - 1

RECURSIVE IntOfDigitChars(_, _)
IntOfDigitChars(s, acc) ==
    IF s = <<>> THEN acc
    ELSE IntOfDigitChars(Tail(s), acc * 10 + DigitOf(Head(s)))

\* int(s) of a text without sign, blank or underscore: None stands for
\* ValueError
IntOfChars(s) ==
    IF s = <<>> \/ \E i \in 1 .. Len(s) : ~IsDigitChar(s[i]) THEN None
    ELSE Some(IntOfDigitChars(s, 0))

\* s[:n]
PySlice(s, n) ==
    IF n >= 0 THEN SubSeq(s, 1, IF n < Len(s) THEN n ELSE Len(s))
    ELSE SubSeq(s, 1, IF Len(s) + n > 0 THEN Len(s) + n ELSE 0)

\* lines 101-102
fetch_papers_from_acm(max_results, sy) ==
    PySlice(SelectSeq(sample_papers, LAMBDA p : Val(IntOfChars(p.year)) >= sy),
            max_results)

\* lines 117-126 (str() of a year that already is a text is that text)
NormalizedPaper(paper) ==
    [title |-> Get(paper, "title", "Unknown Title"),
     authors |-> Get(paper, "authors", "Unknown Authors"),
     abstract |-> Get(paper, "abstract", "No abstract available"),
     doi |-> Get(paper, "doi", ""),
     venue |-> Get(paper, "venue", "Unknown Venue"),
     year |-> Get(paper, "year", Chars4("2", "0", "2", "4")),
     citations |-> Get(paper, "citations", 0),
     url |-> Get(paper, "url", "")]

\* lines 108-130
normalize_papers(raw) == [i \in 1 .. Len(raw) |-> NormalizedPaper(raw[i])]

\* sys.exit(code)
Exit(code, cause) ==
    /\ ppc' = "exited"
    /\ exit_code' = Some(code)
    /\ exit_cause' = cause

MutStepRaises(cause) ==
    /\ ppc' = "exited"
    /\ exit_code' = Some(ExitSuccess)
    /\ exit_cause' = cause

\* an exception leaves a step: main's except clause prints and calls
\* sys.exit(1); generate_sample_digest has no except clause and the
\* interpreter ends the process
StepRaises(cause) ==
    IF args.sample THEN Exit(ExitUncaught, cause) ELSE Exit(ExitFailure, cause)

\* lines 323-350: parse the command line, check the API key
ParseArgs ==
    /\ ppc = "cli"
    /\ IF args.unknown THEN Exit(ExitUsage, "usage")
       ELSE IF ~api_key THEN Exit(ExitNoKey, "no_key")
       ELSE ppc' = "dirs" /\ UNCHANGED <<exit_code, exit_cause>>
    /\ UNCHANGED <<args, api_key, step_log, raw_papers, normalized_papers,
                   enhanced_papers, call_failed, enhanced_data, viz_files,
                   pdf_path>>
    /\ UNCHANGED <<rangeVars, aggVars, trkVars, dateVars, concVars>>

\* lines 21-26, 149, 286: ensure_directories, outside every try block
EnsureDirectories ==
    /\ ppc = "dirs"
    /\ \E ok \in BOOLEAN :
         IF ok THEN ppc' = "fetch" /\ UNCHANGED <<exit_code, exit_cause>>
         ELSE Exit(ExitUncaught, "dirs_error")
    /\ UNCHANGED <<args, api_key, step_log, raw_papers, normalized_papers,
                   enhanced_papers, call_failed, enhanced_data, viz_files,
                   pdf_path>>
    /\ UNCHANGED <<rangeVars, aggVars, trkVars, dateVars, concVars>>

\* lines 156-174 (main) and 289 (sample mode): step 1
FetchStep ==
    /\ ppc = "fetch"
    /\ \E written \in BOOLEAN :
         LET got == IF args.sample
                    THEN fetch_papers_from_acm(SampleMaxResults, SampleStartYear)
                    ELSE fetch_papers_from_acm(args.max_papers, args.start_year)
         IN  /\ raw_papers' = got
             /\ IF ~args.sample /\ got = <<>>
                THEN Exit(ExitNoPapers, "no_papers") /\ UNCHANGED step_log
                ELSE IF ~args.sample /\ ~written
                THEN StepRaises("fetch_error") /\ UNCHANGED step_log
                ELSE /\ ppc' = "normalize"
                     /\ step_log' = Append(step_log, "fetch")
                     /\ UNCHANGED <<exit_code, exit_cause>>
    /\ UNCHANGED <<args, api_key, normalized_papers, enhanced_papers,
                   call_failed, enhanced_data, viz_files, pdf_path>>
    /\ UNCHANGED <<rangeVars, aggVars, trkVars, dateVars, concVars>>

\* lines 181-191 (main) and 290-294 (sample mode): step 2
NormalizeStep ==
    /\ ppc = "normalize"
    /\ \E written \in BOOLEAN :
         /\ normalized_papers' = normalize_papers(raw_papers)
         /\ IF ~written
            THEN StepRaises("normalize_error") /\ UNCHANGED step_log
            ELSE /\ ppc' = "summarize"
                 /\ step_log' = Append(step_log, "normalize")
                 /\ UNCHANGED <<exit_code, exit_cause>>
    /\ UNCHANGED <<args, api_key, raw_papers, enhanced_papers, call_failed,
                   enhanced_data, viz_files, pdf_path>>
    /\ UNCHANGED <<rangeVars, aggVars, trkVars, dateVars, concVars>>

(***************************************************************************)
(* improved_summarize                                                      *)
(***************************************************************************)
\* lines 100-117: the keys the prompt asks the model for
ContractKeys ==
    {"research_question", "motivation", "significance", "methodology",
     "findings", "strengths", "limitations", "theoretical_contribution",
     "applications", "future_work", "connections"}

\* lines 104-109
MethodologyKeys == {"design", "sample_size", "materials", "analysis"}

NotSpecified ==
    <<"N", "o", "t", " ", "s", "p", "e", "c", "i", "f", "i", "e", "d">>

\* the sample_size texts a well-formed answer of the model carries
SampleSizes ==
    { NotSpecified,
      <<"N", "=", "3", "2">>,
      <<"N", "=", "3", "2", " ", "p">>,
      <<"N", "=", "1", ",", "2", "0", "0">> }

\* an answer of the model that json.loads accepts and that has the keys asked for
ApiSummary(ss) ==
    [research_question |-> "rq", motivation |-> "mo", significance |-> <<"si">>,
     methodology |-> [design |-> "experimental", sample_size |-> ss,
                      materials |-> "ma", analysis |-> "an"],
     findings |-> <<[text |-> "fi", statistic |-> "p<.001"]>>,
     strengths |-> <<"st">>, limitations |-> <<"li">>,
     theoretical_contribution |-> "tc", applications |-> <<"ap">>,
     future_work |-> <<"fw">>, connections |-> "co"]

ApiSummaries == { ApiSummary(ss) : ss \in SampleSizes }

MutFallbackSummary(paper) ==
    [research_question |->
         <<"Research question not available for: ", Get(paper, "title", "Unknown")>>,
     motivation |-> "Motivation details not available.",
     significance |-> <<"Significance analysis pending">>,
     methodology |-> [design |-> "Not specified", sample_size |-> NotSpecified,
                      analysis |-> "Not specified"],
     findings |-> <<[text |-> "Findings not available", statistic |-> ""]>>,
     strengths |-> <<"Analysis pending">>,
     limitations |-> <<"Analysis pending">>,
     theoretical_contribution |-> "Theoretical contribution analysis pending.",
     applications |-> <<"Applications analysis pending">>,
     future_work |-> <<"Future work analysis pending">>,
     connections |-> "Connections analysis pending."]

\* lines 253-272
create_fallback_summary(paper) ==
    [research_question |->
         <<"Research question not available for: ", Get(paper, "title", "Unknown")>>,
     motivation |-> "Motivation details not available.",
     significance |-> <<"Significance analysis pending">>,
     methodology |-> [design |-> "Not specified", sample_size |-> NotSpecified,
                      materials |-> "Not specified", analysis |-> "Not specified"],
     findings |-> <<[text |-> "Findings not available", statistic |-> ""]>>,
     strengths |-> <<"Analysis pending">>,
     limitations |-> <<"Analysis pending">>,
     theoretical_contribution |-> "Theoretical contribution analysis pending.",
     applications |-> <<"Applications analysis pending">>,
     future_work |-> <<"Future work analysis pending">>,
     connections |-> "Connections analysis pending."]

\* lines 120-136: response is None when the API call or json.loads raised
extract_deep_summary(paper, response) ==
    IF IsNone(response) THEN create_fallback_summary(paper) ELSE Val(response)

\* line 289: {**paper, **summary}
Merge(paper, summary) ==
    [k \in DOMAIN paper \cup DOMAIN summary |->
        IF k \in DOMAIN summary THEN summary[k] ELSE paper[k]]

\* sub in s
Contains(s, sub) ==
    \E i \in 1 .. (Len(s) - Len(sub) + 1) : SubSeq(s, i, i + Len(sub) - 1) = sub

RECURSIVE Remove(_, _)
\* s.replace(sub, '')
Remove(s, sub) ==
    IF Len(s) < Len(sub) THEN s
    ELSE IF SubSeq(s, 1, Len(sub)) = sub
    THEN Remove(SubSeq(s, Len(sub) + 1, Len(s)), sub)
    ELSE <<Head(s)>> \o Remove(Tail(s), sub)

RECURSIVE TakeWord(_)
TakeWord(s) ==
    IF s = <<>> \/ Head(s) = " " THEN <<>> ELSE <<Head(s)>> \o TakeWord(Tail(s))

\* s.split()[0]: None stands for IndexError
FirstWord(s) == IF LStrip(s) = <<>> THEN None ELSE Some(TakeWord(LStrip(s)))

EmptyRecord == [k \in {} |-> ""]

\* lines 304-306: one paper's term of total_participants; None stands for
\* the ValueError or IndexError of the conversion
Participants(p) ==
    LET methodology == Get(p, "methodology", EmptyRecord)
    IN  IF Contains(Get(methodology, "sample_size", <<>>), <<"N", "=">>)
        THEN LET word == FirstWord(Remove(Get(methodology, "sample_size", <<"0">>),
                                          <<"N", "=">>))
             IN  IF IsNone(word) THEN None ELSE IntOfChars(Val(word))
        ELSE Some(0)

RECURSIVE SumParticipants(_)
\* lines 303-308: None when a term raises
SumParticipants(ps) ==
    IF ps = <<>> THEN Some(0)
    ELSE LET rest == SumParticipants(Tail(ps))
             first == Participants(Head(ps))
         IN  IF IsNone(first) \/ IsNone(rest) THEN None
             ELSE Some(Val(first) + Val(rest))

\* what generate_paper_connections returns for n papers: the list of empty
\* texts of its except clause, a list of n texts, a shorter list, or a JSON
\* value zip cannot iterate (None here)
ConnectionResults(n) ==
    { Some([i \in 1 .. n |-> ""]), Some([i \in 1 .. n |-> "cx"]),
      Some([i \in 1 .. (n - 1) |-> "cx"]), None }

\* lines 296-297
WithConnections(ps, connections) ==
    [i \in 1 .. Len(ps) |->
        IF i <= Len(connections)
        THEN [k \in DOMAIN ps[i] \cup {"connections"} |->
                 IF k = "connections" THEN connections[i] ELSE ps[i][k]]
        ELSE ps[i]]

\* lines 284-290: one paper of summarize_all_papers' loop
SummarizeOne ==
    /\ ppc = "summarize"
    /\ Len(enhanced_papers) < Len(normalized_papers)
    /\ \E response \in Optional(ApiSummaries) :
         LET paper == normalized_papers[Len(enhanced_papers) + 1]
         IN  /\ enhanced_papers' =
                  Append(enhanced_papers,
                         Merge(paper, extract_deep_summary(paper, response)))
             /\ call_failed' = Append(call_failed, IsNone(response))
    /\ UNCHANGED <<ppc, args, api_key, exit_code, exit_cause, step_log,
                   raw_papers, normalized_papers, enhanced_data, viz_files,
                   pdf_path>>
    /\ UNCHANGED <<rangeVars, aggVars, trkVars, dateVars, concVars>>

\* lines 292-318 and main's lines 203-214: the synthesis, the statistics,
\* the return and the save of data/enhanced_papers.json
SummarizeFinish ==
    /\ ppc = "summarize"
    /\ Len(enhanced_papers) = Len(normalized_papers)
    /\ \E connections \in ConnectionResults(Len(enhanced_papers)),
          synthesis \in {"synthesis", "Error generating summary"},
          written \in BOOLEAN :
         IF IsNone(connections)
         THEN /\ StepRaises("summarize_connections")
              /\ UNCHANGED <<enhanced_papers, enhanced_data, step_log>>
         ELSE LET connected == WithConnections(enhanced_papers, Val(connections))
                  total == SumParticipants(connected)
              IN  /\ enhanced_papers' = connected
                  /\ IF IsNone(total)
                     THEN /\ StepRaises("summarize_statistics")
                          /\ UNCHANGED <<enhanced_data, step_log>>
                     ELSE IF normalized_papers = <<>>
                     THEN /\ StepRaises("summarize_date_range")
                          /\ UNCHANGED <<enhanced_data, step_log>>
                     ELSE /\ enhanced_data' =
                               Some([papers |-> connected,
                                     synthesis |-> synthesis,
                                     metadata |->
                                       [paper_count |-> Len(connected),
                                        total_participants |-> Val(total)]])
                          /\ IF ~written
                             THEN /\ StepRaises("summarize_write")
                                  /\ UNCHANGED step_log
                             ELSE /\ ppc' = "visualize"
                                  /\ step_log' = Append(step_log, "summarize")
                                  /\ UNCHANGED <<exit_code, exit_cause>>
    /\ UNCHANGED <<args, api_key, raw_papers, normalized_papers, call_failed,
                   viz_files, pdf_path>>
    /\ UNCHANGED <<rangeVars, aggVars, trkVars, dateVars, concVars>>

\* lines 221-232 (main) and 305 (sample mode), visualize_professional's
\* lines 371-399: step 4; the diagrams of the papers before the one that
\* raised are on disk
VisualizeStep ==
    /\ ppc = "visualize"
    /\ \E k \in 0 .. Len(Val(enhanced_data).papers) :
         /\ viz_files' = 1 .. k
         /\ IF k < Len(Val(enhanced_data).papers)
            THEN StepRaises("visualize_error") /\ UNCHANGED step_log
            ELSE /\ ppc' = "render"
                 /\ step_log' = Append(step_log, "visualize")
                 /\ UNCHANGED <<exit_code, exit_cause>>
    /\ UNCHANGED <<args, api_key, raw_papers, normalized_papers,
                   enhanced_papers, call_failed, enhanced_data, pdf_path>>
    /\ UNCHANGED <<rangeVars, aggVars, trkVars, dateVars, concVars>>

\* what render_digest does: raise before the PDF is made (lines 19-102),
\* return None after pdfkit raised (lines 113-119), or return output_pdf
\* (line 112) with or without the file on disk
RenderOutcomes == {"raises", "returns_none", "returns_missing", "returns_pdf"}

\* lines 242-274 (main) and 307-317 (sample mode): step 5
RenderStep ==
    /\ ppc = "render"
    /\ \E outcome \in RenderOutcomes :
         IF outcome = "raises"
         THEN StepRaises("render_error") /\ UNCHANGED <<pdf_path, step_log>>
         ELSE /\ pdf_path' = IF outcome = "returns_none" THEN None
                             ELSE Some("output/research_digest.pdf")
              /\ IF outcome = "returns_pdf"
                 THEN /\ ppc' = "done"
                      /\ exit_code' = Some(ExitSuccess)
                      /\ exit_cause' = "success"
                      /\ step_log' = Append(step_log, "render")
                 ELSE Exit(ExitFailure, "no_pdf") /\ UNCHANGED step_log
    /\ UNCHANGED <<args, api_key, raw_papers, normalized_papers,
                   enhanced_papers, call_failed, enhanced_data, viz_files>>
    /\ UNCHANGED <<rangeVars, aggVars, trkVars, dateVars, concVars>>

\* the --start-year values drawn: the default, a year with sample papers
\* and a year after all of them
PipelineStartYears == {2022, 2025, 2026}

CommandLines ==
    [sample : BOOLEAN, unknown : BOOLEAN, max_papers : (-1) .. MaxPapersArg,
     start_year : PipelineStartYears]

InitPipe ==
    /\ ppc = "cli"
    /\ args \in CommandLines
    /\ api_key \in BOOLEAN
    /\ exit_code = None
    /\ exit_cause = ""
    /\ step_log = <<>>
    /\ raw_papers = <<>>
    /\ normalized_papers = <<>>
    /\ enhanced_papers = <<>>
    /\ call_failed = <<>>
    /\ enhanced_data = None
    /\ viz_files = {}
    /\ pdf_path = None

IdlePipe ==
    /\ ppc = "off"
    /\ args = [sample |-> FALSE, unknown |-> FALSE, max_papers |-> 0,
               start_year |-> SampleStartYear]
    /\ api_key = FALSE
    /\ exit_code = None
    /\ exit_cause = ""
    /\ step_log = <<>>
    /\ raw_papers = <<>>
    /\ normalized_papers = <<>>
    /\ enhanced_papers = <<>>
    /\ call_failed = <<>>
    /\ enhanced_data = None
    /\ viz_files = {}
    /\ pdf_path = None

NextPipe ==
    \/ ParseArgs \/ EnsureDirectories \/ FetchStep \/ NormalizeStep
    \/ SummarizeOne \/ SummarizeFinish \/ VisualizeStep \/ RenderStep

(***************************************************************************)
(* parse_date_from_rss and the date fields of one entry.                   *)
(***************************************************************************)
\* how many of an entry's six date fields hold a text
MaxPresentFields == 2

\* the exceptions the except clause of line 71 names
CaughtByParse == {"ValueError", "TypeError"}

\* what date_parser.parse(date_str, fuzzy=True) does with a text: it returns
\* a datetime, raises ParserError (a ValueError) on an unknown format or an
\* impossible date, or raises OverflowError when a number of the text does
\* not fit a C integer ("08335394550"); on what is no text it raises TypeError
Returns(v) == [raises |-> "", value |-> v]

Raises(exc) == [raises |-> exc, value |-> None]

\* the arguments parse_date_from_rss is called with: None, "", a text with
\* what dateutil does with it, and an object that is no text
ParseInputs ==
    { [kind |-> "None", dateutil |-> Raises("TypeError")],
      [kind |-> "empty", dateutil |-> Raises("ValueError")],
      [kind |-> "object", dateutil |-> Raises("TypeError")] }
        \cup { [kind |-> "text", dateutil |-> o] :
                 o \in { Returns(Some([year |-> y, month |-> m])) :
                           y \in {DefaultStartYear, DefaultStartYear + 1},
                           m \in {1, 12} }
                       \cup { Raises("ValueError"), Raises("OverflowError") } }

\* line 63: `not date_str`
Falsy(s) == s.kind \in {"None", "empty"}

\* lines 52-73: what the call returns, or the exception that leaves it
parse_date_from_rss(s) ==
    IF Falsy(s) THEN Returns(None)
    ELSE IF s.dateutil.raises = "" THEN Returns(s.dateutil.value)
    ELSE IF s.dateutil.raises \in CaughtByParse THEN Returns(None)
    ELSE Raises(s.dateutil.raises)

\* the years and months the first characters of an unparsed text read as:
\* both ends of the accepted intervals and their neighbours
CrudeYears == {SaneYearMin - 1, SaneYearMin, SaneYearMax, SaneYearMax + 1}

CrudeMonths == {0, 1, 12, 13}

\* the texts of a date field: two that dateutil parses, and texts it rejects
\* with ValueError, by what int(text[:4]) and int(text[5:7]) read (None: int
\* raises ValueError): every year with the month 6, and every month with the
\* last accepted year.  A text on which dateutil raises another exception
\* ends the processing of the feed (FeedRaises).
FieldTexts ==
    { FullDate(DefaultStartYear, 6), FullDate(DefaultStartYear + 1, 1) }
        \cup { DateStr(None, y, Some(6)) : y \in Optional(CrudeYears) }
        \cup { DateStr(None, Some(SaneYearMax), m) : m \in Optional(CrudeMonths) }

FieldNames == 1 .. 6

\* the fields of an entry that hold a text: at most MaxPresentFields of them
PresentFields ==
    { T \in SUBSET FieldNames : Cardinality(T) <= MaxPresentFields }

\* the date fields of an entry whose fields S hold the texts f; the others
\* are absent or empty (line 261 skips both)
FieldTuple(S, f) == [i \in FieldNames |-> IF i \in S THEN f[i] ELSE None]

NoCall == [kind |-> "None", dateutil |-> Raises("TypeError")]

NoFields == [i \in FieldNames |-> None]

\* one call of parse_date_from_rss
CallParse ==
    /\ dpc = "parse"
    /\ parse_result' = Some(parse_date_from_rss(date_str))
    /\ dpc' = "done"
    /\ UNCHANGED <<date_str, entry_dates, resolution>>
    /\ UNCHANGED <<rangeVars, aggVars, trkVars, pipeVars, concVars>>

\* lines 231-286: the loop over the date fields of one entry
ResolveEntry ==
    /\ dpc = "resolve"
    /\ resolution' = Some(ResolveDate(entry_dates))
    /\ dpc' = "done"
    /\ UNCHANGED <<date_str, parse_result, entry_dates>>
    /\ UNCHANGED <<rangeVars, aggVars, trkVars, pipeVars, concVars>>

InitDates ==
    /\ parse_result = None
    /\ resolution = None
    /\ \/ /\ dpc = "parse"
          /\ date_str \in ParseInputs
          /\ entry_dates = NoFields
       \/ /\ dpc = "resolve"
          /\ date_str = NoCall
          /\ \E S \in PresentFields :
               \E f \in [S -> FieldTexts] : entry_dates = FieldTuple(S, f)

IdleDates ==
    /\ dpc = "idle"
    /\ date_str = NoCall
    /\ parse_result = None
    /\ entry_dates = NoFields
    /\ resolution = None

NextDates == CallParse \/ ResolveEntry

(***************************************************************************)
(* Two processes inside filter_new_papers at the same time.  Each has its  *)
(* own locals; the ledger file is the only thing they share, and nothing   *)
(* in paper_tracker locks it.                                              *)
(***************************************************************************)
\* the longest batch either process passes
MaxConcurrentBatch == 1

Procs == {1, 2}

ConcurrentBatches == SeqsUpTo(TrackedPapers, MaxConcurrentBatch)

\* both calls are made on the same day
ConcurrentDay == "2025-01-01"

trkLocals ==
    <<tpc, papers, history, updated_history, new_papers, loop_i, today,
      call_ledger, last_call, reset_since, stats>>

\* lines 34-38: process p loads the ledger and copies it
ConcLoad(p) ==
    /\ cpc[p] = "start"
    /\ chistory' = [chistory EXCEPT ![p] = load_history(ledger_file)]
    /\ cupdated' = [cupdated EXCEPT ![p] = load_history(ledger_file)]
    /\ cpc' = [cpc EXCEPT ![p] = "loop"]
    /\ UNCHANGED <<cpapers, cnew, ci, cwriter, ledger_file>>
    /\ UNCHANGED <<rangeVars, aggVars, trkLocals, pipeVars, dateVars>>

\* lines 40-58: one paper of p's batch
ConcLoopStep(p) ==
    /\ cpc[p] = "loop"
    /\ ci[p] <= Len(cpapers[p])
    /\ LET paper == cpapers[p][ci[p]]
           identifier == Identifier(paper)
       IN  IF AlreadyProcessed(identifier, chistory[p], cupdated[p])
           THEN UNCHANGED <<cnew, cupdated>>
           ELSE /\ cnew' = [cnew EXCEPT ![p] = Append(cnew[p], paper)]
                /\ cupdated' =
                     [cupdated EXCEPT
                        ![p] = DictSet(cupdated[p], identifier,
                                       Entry(paper, ConcurrentDay))]
    /\ ci' = [ci EXCEPT ![p] = ci[p] + 1]
    /\ UNCHANGED <<cpc, cpapers, chistory, cwriter, ledger_file>>
    /\ UNCHANGED <<rangeVars, aggVars, trkLocals, pipeVars, dateVars>>

\* lines 25-26: p opens the file for writing, which empties it
ConcSaveOpen(p) ==
    /\ cpc[p] = "loop"
    /\ ci[p] > Len(cpapers[p])
    /\ ledger_file' = CorruptFile
    /\ cpc' = [cpc EXCEPT ![p] = "dump"]
    /\ UNCHANGED <<cpapers, chistory, cupdated, cnew, ci, cwriter>>
    /\ UNCHANGED <<rangeVars, aggVars, trkLocals, pipeVars, dateVars>>

\* lines 27, 61: p writes its staged copy, and its call returns new_papers
ConcSaveDump(p) ==
    /\ cpc[p] = "dump"
    /\ ledger_file' = JsonFile(SavedHistory(chistory[p], cupdated[p]))
    /\ cwriter' = Some(p)
    /\ cpc' = [cpc EXCEPT ![p] = "returned"]
    /\ UNCHANGED <<cpapers, chistory, cupdated, cnew, ci>>
    /\ UNCHANGED <<rangeVars, aggVars, trkLocals, pipeVars, dateVars>>

\* both processes are about to call filter_new_papers
InitConc ==
    /\ cpc = [p \in Procs |-> "start"]
    /\ cpapers \in [Procs -> ConcurrentBatches]
    /\ chistory = [p \in Procs |-> EmptyDict]
    /\ cupdated = [p \in Procs |-> EmptyDict]
    /\ cnew = [p \in Procs |-> <<>>]
    /\ ci = [p \in Procs |-> 1]
    /\ cwriter = None

IdleConc ==
    /\ cpc = [p \in Procs |-> "off"]
    /\ cpapers = [p \in Procs |-> <<>>]
    /\ chistory = [p \in Procs |-> EmptyDict]
    /\ cupdated = [p \in Procs |-> EmptyDict]
    /\ cnew = [p \in Procs |-> <<>>]
    /\ ci = [p \in Procs |-> 1]
    /\ cwriter = None

\* the ledger the two processes find, and the single-process variables at rest
InitSharedLedger ==
    /\ tpc = "off"
    /\ ledger_file \in {AbsentFile, CorruptFile, JsonFile(EmptyDict)}
    /\ papers = <<>>
    /\ history = EmptyDict
    /\ updated_history = EmptyDict
    /\ new_papers = <<>>
    /\ loop_i = 1
    /\ today = ConcurrentDay
    /\ call_ledger = AbsentFile
    /\ last_call = None
    /\ reset_since = FALSE
    /\ stats = None

NextConc ==
    \E p \in Procs :
        ConcLoad(p) \/ ConcLoopStep(p) \/ ConcSaveOpen(p) \/ ConcSaveDump(p)

(***************************************************************************)
(* The specifications.                                                     *)
(***************************************************************************)
Dates == [year : Years, month : MonthSample]

\* the call of is_in_date_range: line 76 to its return
CallRange ==
    /\ apc = "idle"
    /\ tpc = "off"
    /\ IsNone(filter_result)
    /\ filter_result' =
         Some(is_in_date_range(paper_date, paper_year_fallback, paper_month_fallback,
                               start_year, start_month, end_year, end_month))
    /\ UNCHANGED <<paper_date, paper_year_fallback, paper_month_fallback,
                   start_year, start_month, end_year, end_month>>
    /\ UNCHANGED <<aggVars, trkVars, pipeVars, dateVars, concVars>>

InitRange ==
    /\ paper_date \in Optional(Dates)
    /\ paper_year_fallback
         \in Optional({DefaultStartYear - 1, DefaultStartYear + 1, SaneYearMax})
    /\ paper_month_fallback \in Optional({10, 12})
    /\ start_year \in {DefaultStartYear, DefaultStartYear + 1}
    /\ start_month \in Optional(MonthSample)
    /\ end_year \in Optional(DefaultStartYear .. (DefaultStartYear + MaxYearOffset))
    /\ end_month \in Optional(MonthSample)
    /\ filter_result = None

\* the range arguments of a run of the aggregator; is_in_date_range's own
\* argument variables are not used by the run
InitAggRange ==
    /\ \E r \in AggRanges :
         /\ start_year = r.sy
         /\ start_month = r.sm
         /\ end_year = r.ey
         /\ end_month = r.em
    /\ paper_date = None
    /\ paper_year_fallback = None
    /\ paper_month_fallback = None
    /\ filter_result = None

IdleRange ==
    /\ paper_date = None
    /\ paper_year_fallback = None
    /\ paper_month_fallback = None
    /\ start_year = DefaultStartYear
    /\ start_month = None
    /\ end_year = None
    /\ end_month = None
    /\ filter_result = None

NextRange == CallRange

InitRangeCall == InitRange /\ IdleAgg /\ IdleTrk /\ IdlePipe /\ IdleDates /\ IdleConc

SpecRange == InitRangeCall /\ [][NextRange]_vars

Init == InitAggRange /\ InitAgg /\ IdleTrk /\ IdlePipe /\ IdleDates /\ IdleConc

Next == NextAgg

Spec == Init /\ [][Next]_vars

InitTracker == IdleRange /\ IdleAgg /\ InitTrk /\ IdlePipe /\ IdleDates /\ IdleConc

SpecTracker == InitTracker /\ [][NextTrk]_vars

InitFeedsCli == InitFeedsMain /\ IdleTrk /\ IdlePipe /\ IdleDates /\ IdleConc

NextFeedsCli == FeedsMain

SpecFeedsCli == InitFeedsCli /\ [][NextFeedsCli]_vars

InitPipeline == IdleRange /\ IdleAgg /\ IdleTrk /\ InitPipe /\ IdleDates /\ IdleConc

SpecPipeline == InitPipeline /\ [][NextPipe]_vars

InitDateCalls == IdleRange /\ IdleAgg /\ IdleTrk /\ IdlePipe /\ InitDates /\ IdleConc

SpecDates == InitDateCalls /\ [][NextDates]_vars

InitStatsCall == IdleRange /\ IdleAgg /\ InitStats /\ IdlePipe /\ IdleDates /\ IdleConc

SpecStats == InitStatsCall /\ [][NextStats]_vars

InitConcurrent ==
    IdleRange /\ IdleAgg /\ InitSharedLedger /\ IdlePipe /\ IdleDates /\ InitConc

SpecConcurrent == InitConcurrent /\ [][NextConc]_vars

(***************************************************************************)
(* Properties of is_in_date_range (checked under SpecRange).               *)
(***************************************************************************)
RangeReturned == ~IsNone(filter_result)

Resolvable == ~IsNone(paper_date) \/ ~IsNone(paper_year_fallback)

\* the candidate's year and month as the specification resolves them
CandYear ==
    IF ~IsNone(paper_date) THEN Val(paper_date).year ELSE Val(paper_year_fallback)

CandMonth ==
    IF ~IsNone(paper_date) THEN Val(paper_date).month
    ELSE IF IsNone(paper_month_fallback) THEN 1
    ELSE Val(paper_month_fallback)

CandOrdinal == CandYear * 12 + CandMonth

\* C1: a candidate with neither paper_date nor paper_year_fallback is
\* excluded for every range, with or without month bounds.
C1_UnresolvedExcluded ==
    (RangeReturned /\ ~Resolvable) => Val(filter_result) = FALSE

\* C1 witness: an unresolvable candidate was filtered against a range that
\* has only start_year.
C1_Witness ==
    /\ RangeReturned
    /\ ~Resolvable
    /\ IsNone(start_month) /\ IsNone(end_year) /\ IsNone(end_month)
    /\ Val(filter_result) = FALSE

C3_UnboundedFromStartMonth ==
    (/\ RangeReturned
     /\ ~IsNone(start_month) /\ IsNone(end_year) /\ IsNone(end_month)
     /\ Resolvable)
    => (Val(filter_result) = (CandOrdinal >= start_year * 12 + Val(start_month)))

\* C4: in year-only mode the result is exactly year >= start_year; end_year
\* has no effect.
C4_YearOnlyMode ==
    (/\ RangeReturned
     /\ IsNone(start_month) /\ IsNone(end_month)
     /\ Resolvable)
    => (Val(filter_result) = (CandYear >= start_year))

\* C4 witness: in year-only mode a candidate of a year after end_year was
\* accepted.
C4_Witness ==
    /\ RangeReturned
    /\ IsNone(start_month) /\ IsNone(end_month)
    /\ ~IsNone(end_year)
    /\ ~IsNone(paper_date)
    /\ Val(paper_date).year > Val(end_year)
    /\ Val(filter_result) = TRUE

InRangeWith(sm, ey, em) ==
    is_in_date_range(paper_date, paper_year_fallback, paper_month_fallback,
                     start_year, sm, ey, em)

DedupKey(p) == IF p.doi # <<>> THEN p.doi ELSE NormTitle(p.title)

\* the first index of the merged list whose record has key k
FirstWithKey(k) ==
    CHOOSE i \in 1 .. Len(all_papers) :
        /\ DedupKey(all_papers[i]) = k
        /\ \A j \in 1 .. (i - 1) : DedupKey(all_papers[j]) # k

\* C6: for each key occurring in the merged list the output holds exactly
\* one record with that key, and it is the first such record in fetch order.
C6_OneRecordPerKey ==
    apc = "done"
    => \A i \in 1 .. Len(all_papers) :
         LET k == DedupKey(all_papers[i])
             hits == { j \in 1 .. Len(unique_papers) : DedupKey(unique_papers[j]) = k }
         IN  /\ Cardinality(hits) = 1
             /\ \A j \in hits : unique_papers[j] = all_papers[FirstWithKey(k)]

\* the year of a paper, read from its four decimal digits
YearOfPaper(p) == p.year[1] * 1000 + p.year[2] * 100 + p.year[3] * 10 + p.year[4]

\* year*12 + (month or 1)
PaperOrdinal(p) == YearOfPaper(p) * 12 + (IF IsNone(p.month) THEN 1 ELSE Val(p.month))

\* C7: the returned list is in non-increasing order of year*12 + (month or 1).
\* (Every year the aggregator writes is str() of an integer, so the ordinal-0
\* fallback of sort_key is never taken in a run.)
C7_SortedMostRecentFirst ==
    apc = "done"
    => \A i, j \in 1 .. Len(unique_papers) :
         i < j => PaperOrdinal(unique_papers[i]) >= PaperOrdinal(unique_papers[j])

\* C7 witness: two papers were merged oldest first and returned most recent
\* first.
C7_Witness ==
    /\ apc = "done"
    /\ Len(all_papers) = 2
    /\ Len(unique_papers) = 2
    /\ PaperOrdinal(all_papers[1]) < PaperOrdinal(all_papers[2])
    /\ unique_papers = <<all_papers[2], all_papers[1]>>

\* C8: a feed whose fetch or processing raised contributes no record to the
\* merged list or to the result; the run goes on to the remaining feeds
\* (until it has returned it is either in a feed, which it can end, or past
\* the last feed, where it returns) and returns after all feeds were tried.
C8_FeedFailureIsolated ==
    /\ \A f \in raised_feeds :
         /\ \A i \in 1 .. Len(all_papers) : all_papers[i].research_domain # f
         /\ \A i \in 1 .. Len(unique_papers) : unique_papers[i].research_domain # f
    /\ apc = "fetch" => (ENABLED EndFeed \/ feed_idx = NumFeeds + 1)
    /\ apc = "done" => feed_idx = NumFeeds + 1

\* C8 witness: the first feed raised after an entry of it had been accepted,
\* and the run returned with a paper of the second feed.
C8_Witness ==
    /\ apc = "done"
    /\ raised_feeds = {1}
    /\ accepted = 2
    /\ Len(unique_papers) = 1
    /\ unique_papers[1].research_domain = 2

(***************************************************************************)
(* Properties of paper_tracker (checked under SpecTracker).                *)
(***************************************************************************)
\* the identifiers the ledger file holds (none when absent or unparseable)
LedgerKeys(file) == IF file.kind = "json" THEN DOMAIN file.data ELSE {}

\* doi if non-empty, else title
PaperId(p) == IF p.doi = <<>> THEN p.title ELSE p.doi

RECURSIVE Unseen(_, _)
\* the papers of batch whose identifier is not in keys, in batch order
Unseen(batch, keys) ==
    IF batch = <<>> THEN <<>>
    ELSE IF PaperId(Head(batch)) \in keys THEN Unseen(Tail(batch), keys)
    ELSE <<Head(batch)>> \o Unseen(Tail(batch), keys)

\* C9: filter_new_papers returns exactly the input papers whose identifier
\* is not a key of the ledger as it was when the call began, in input order.
C9_ReturnsUnseenInOrder ==
    tpc = "returned" => new_papers = Unseen(papers, LedgerKeys(call_ledger))

\* C9 witness: of a batch of two papers the first was in the ledger and was
\* dropped, the second was not and was returned.
C9_Witness ==
    /\ tpc = "returned"
    /\ Len(papers) = 2
    /\ PaperId(papers[1]) \in LedgerKeys(call_ledger)
    /\ PaperId(papers[2]) \notin LedgerKeys(call_ledger)
    /\ new_papers = <<papers[2]>>

\* C10: when a call that began with an empty ledger is followed, with no
\* reset in between, by a call with the same batch, the first returned the
\* whole batch and the second returns the empty list.
C10_SecondRunReturnsNothing ==
    (/\ tpc = "returned"
     /\ ~IsNone(last_call)
     /\ ~reset_since
     /\ LedgerKeys(Val(last_call).ledger_before) = {}
     /\ Val(last_call).batch = papers)
    => /\ Val(last_call).result = papers
       /\ new_papers = <<>>

\* C10 witness: a batch of two papers was filtered twice in a row, starting
\* from an empty ledger.
C10_Witness ==
    /\ tpc = "returned"
    /\ ~IsNone(last_call)
    /\ ~reset_since
    /\ LedgerKeys(Val(last_call).ledger_before) = {}
    /\ Val(last_call).batch = papers
    /\ Len(papers) = 2
    /\ Val(last_call).result = papers
    /\ new_papers = <<>>

\* the identifiers the ledger held when the previous completed call returned
KeysAfterLastCall ==
    IF IsNone(last_call) THEN {}
    ELSE LedgerKeys(Val(last_call).ledger_before)
           \cup { PaperId(Val(last_call).result[i]) :
                    i \in 1 .. Len(Val(last_call).result) }

\* C11: after reset_history the ledger is empty, and the next
\* filter_new_papers call returns its whole batch as new, also when the
\* ledger held every paper of the batch before the reset.
C11_ResetThenRerun ==
    /\ (reset_since /\ tpc = "idle") => LedgerKeys(ledger_file) = {}
    /\ (reset_since /\ tpc = "returned") => new_papers = papers

\* C11 witness: a batch of two papers, all in the ledger after the previous
\* call, was filtered again after a reset and came back whole.
C11_Witness ==
    /\ tpc = "returned"
    /\ reset_since
    /\ Len(papers) = 2
    /\ \A i \in 1 .. Len(papers) : PaperId(papers[i]) \in KeysAfterLastCall
    /\ new_papers = papers

\* every entry of the ledger file old is in the ledger file new, unchanged
Preserved(old, new) ==
    \A k \in LedgerKeys(old) :
        k \in LedgerKeys(new) /\ new.data[k] = old.data[k]

\* C12: a completed filter_new_papers call leaves every entry the ledger
\* held when the call began in the ledger, unchanged; outside a call only
\* reset_history changes the ledger file (get_stats does not), and
\* reset_history leaves no entry at all.
C12_EntriesNeverChange ==
    [][ /\ tpc' = "returned" => Preserved(call_ledger', ledger_file')
        /\ (tpc \in {"idle", "returned"} /\ ~reset_history)
             => ledger_file' = ledger_file
        /\ reset_history => LedgerKeys(ledger_file') = {} ]_vars

\* C12 witness: a paper recorded on an earlier day was passed again; its
\* entry still carries the earlier day.
C12_Witness ==
    /\ tpc = "returned"
    /\ \E i \in 1 .. Len(papers) :
         LET k == PaperId(papers[i])
         IN  /\ k \in LedgerKeys(call_ledger)
             /\ call_ledger.data[k].processed_date # today
             /\ call_ledger.data[k].title # papers[i].title
             /\ ledger_file.data[k] = call_ledger.data[k]

\* the two ledger files hold the same ledger
SameLedger(f, g) ==
    /\ LedgerKeys(f) = LedgerKeys(g)
    /\ \A k \in LedgerKeys(f) : f.data[k] = g.data[k]

\* C13: whenever the process dies during filter_new_papers, the persisted
\* ledger is the ledger as it was before the call or the fully updated
\* ledger.
C13_AtomicCommit ==
    tpc = "crashed"
    => \/ SameLedger(ledger_file, call_ledger)
       \/ /\ loop_i > Len(papers)
          /\ SameLedger(ledger_file, JsonFile(updated_history))

\* C14: with the ledger file absent or unparseable, load_history yields the
\* empty ledger, neither filter_new_papers nor get_stats raises, and
\* filter_new_papers returns every input paper.
C14_MissingOrCorruptLedgerIsEmpty ==
    /\ tpc # "raised"
    /\ (tpc \in {"loop", "dump", "returned"} /\ call_ledger.kind # "json")
         => history = EmptyDict
    /\ (tpc = "returned" /\ call_ledger.kind # "json") => new_papers = papers
    /\ (~IsNone(stats) /\ tpc = "idle" /\ ledger_file.kind # "json"
          /\ IsNone(last_call) /\ ~reset_since)
         => Val(stats).total_processed = 0

\* C14 witness: a batch of two papers was filtered against an unparseable
\* ledger file and came back whole.
C14_Witness ==
    /\ tpc = "returned"
    /\ call_ledger = CorruptFile
    /\ Len(papers) = 2
    /\ new_papers = papers

(***************************************************************************)
(* Properties of main_pipeline and improved_summarize (checked under       *)
(* SpecPipeline).                                                          *)
(***************************************************************************)
\* the place of a step in the order aggregation, history tracking,
\* summarization, visualization, rendering (normalization belongs to the
\* aggregation's side of the order)
StepRank(step) ==
    CASE step = "fetch" -> 1
      [] step = "normalize" -> 2
      [] step = "filter_new_papers" -> 3
      [] step = "summarize" -> 4
      [] step = "visualize" -> 5
      [] step = "render" -> 6

\* C15: the steps of a run complete in the order aggregation, history
\* tracking, summarization, visualization, rendering, and a run that has
\* reached rendering has completed every earlier step, history tracking
\* included.
C15_StepsInOrderWithTracking ==
    /\ \A i, j \in 1 .. Len(step_log) :
         i < j => StepRank(step_log[i]) < StepRank(step_log[j])
    /\ ppc \in {"render", "done"}
         => \A step \in {"fetch", "filter_new_papers", "summarize", "visualize"} :
              \E i \in 1 .. Len(step_log) : step_log[i] = step

\* the statuses the run ends with after a failure
FailureStatuses == {ExitFailure, ExitUncaught}

\* C16: a run that ends because the fetch returned no paper ends before
\* summarization, with a status that is not one of the failure statuses.
C16_NothingToDoExitCode ==
    (ppc = "exited" /\ exit_cause = "no_papers")
    => /\ enhanced_papers = <<>>
       /\ Val(exit_code) \notin FailureStatuses

\* the steps completed before the step that a cause belongs to
StepsBefore(cause) ==
    CASE cause = "fetch_error" -> <<>>
      [] cause = "normalize_error" -> <<"fetch">>
      [] cause \in {"summarize_connections", "summarize_statistics",
                    "summarize_date_range", "summarize_write"}
           -> <<"fetch", "normalize">>
      [] cause \in {"render_error", "no_pdf"}
           -> <<"fetch", "normalize", "summarize", "visualize">>

StepFailures ==
    {"fetch_error", "normalize_error", "summarize_connections",
     "summarize_statistics", "summarize_date_range", "summarize_write",
     "render_error", "no_pdf"}

\* C17: when the fetch, normalize, summarize or render step raises, or
\* rendering yields no PDF file, the run has ended with a non-zero status,
\* exactly the steps before the failed one have completed and no later step
\* has left anything behind.
C17_StepFailureAborts ==
    exit_cause \in StepFailures
    => /\ ppc = "exited"
       /\ ~IsNone(exit_code)
       /\ Val(exit_code) # 0
       /\ step_log = StepsBefore(exit_cause)
       /\ Len(step_log) < 2 => enhanced_papers = <<>>
       /\ Len(step_log) < 3 => (viz_files = {} /\ IsNone(pdf_path))

\* C17 witness: a run of main ended with status 1 after render_digest
\* raised; the four earlier steps had completed.
C17_Witness ==
    /\ ppc = "exited"
    /\ ~args.sample
    /\ exit_cause = "render_error"
    /\ exit_code = Some(1)
    /\ Len(step_log) = 4

\* C18: a paper whose summarization call failed carries the keys of the
\* summarizer contract, with the four methodology sub-keys, next to its own
\* fields; what summarize_all_papers returns holds every input paper, in
\* order; and the statistics of summarize_all_papers raise only over a paper
\* whose call succeeded.
C18_FallbackOnFailedSummary ==
    /\ \A i \in 1 .. Len(call_failed) :
         call_failed[i]
         => /\ DOMAIN enhanced_papers[i]
                 = DOMAIN normalized_papers[i] \cup ContractKeys
            /\ DOMAIN enhanced_papers[i].methodology = MethodologyKeys
            /\ \A k \in DOMAIN normalized_papers[i] \ ContractKeys :
                 enhanced_papers[i][k] = normalized_papers[i][k]
    /\ ~IsNone(enhanced_data)
         => /\ Len(Val(enhanced_data).papers) = Len(normalized_papers)
            /\ \A i \in 1 .. Len(normalized_papers) :
                 /\ Val(enhanced_data).papers[i].title = normalized_papers[i].title
                 /\ Val(enhanced_data).papers[i].doi = normalized_papers[i].doi
    /\ exit_cause = "summarize_statistics"
         => \E i \in 1 .. Len(call_failed) : ~call_failed[i]

\* C18 witness: of two papers the first one's call failed and the second
\* one's succeeded, and summarize_all_papers returned both.
C18_Witness ==
    /\ ~IsNone(enhanced_data)
    /\ call_failed = <<TRUE, FALSE>>
    /\ Len(Val(enhanced_data).papers) = 2
    /\ Val(enhanced_data).papers[1].motivation = "Motivation details not available."

\* C19: a failure of the visualization step does not end the run.
C19_VisualizationFailureContinues ==
    ppc = "exited" => exit_cause # "visualize_error"

(***************************************************************************)
(* Properties of the command line (checked under SpecFeedsCli).            *)
(***************************************************************************)
\* end_month without end_year, end_year before start_year, or, within one
\* year, end_month before start_month
InvalidRange ==
    \/ ~IsNone(end_month) /\ IsNone(end_year)
    \/ ~IsNone(end_year) /\ Val(end_year) < start_year
    \/ /\ ~IsNone(end_year) /\ Val(end_year) = start_year
       /\ ~IsNone(start_month) /\ ~IsNone(end_month)
       /\ Val(end_month) < Val(start_month)

\* C20: no fetching begins on a command line whose range is invalid.
C20_InvalidRangeRejected ==
    apc = "fetch" => ~InvalidRange

(***************************************************************************)
(* Properties of parse_date_from_rss and of the date fields of an entry    *)
(* (checked under SpecDates).                                              *)
(***************************************************************************)
\* the argument is None, empty, or a text dateutil makes no date of
Uninterpretable(s) ==
    \/ s.kind \in {"None", "empty"}
    \/ s.kind = "text" /\ s.dateutil.raises # ""

\* C21: called with None, with the empty string or with a text that cannot
\* be interpreted as a date, parse_date_from_rss returns None and raises
\* nothing.
C21_UninterpretableIsNoDate ==
    (dpc = "done" /\ ~IsNone(parse_result) /\ Uninterpretable(date_str))
        => Val(parse_result) = Returns(None)

(***************************************************************************)
(* Properties of normalize_papers (checked under SpecPipeline).            *)
(***************************************************************************)
\* C22: every normalized record has a research_domain: that of the input
\* paper it was made from, or "General" when the input paper has none.
C22_ResearchDomainCarried ==
    \A i \in 1 .. Len(normalized_papers) :
        /\ i <= Len(raw_papers)
        /\ "research_domain" \in DOMAIN normalized_papers[i]
        /\ normalized_papers[i].research_domain
             = Get(raw_papers[i], "research_domain", "General")

(***************************************************************************)
(* Properties of get_stats (checked under SpecStats).                      *)
(***************************************************************************)
RECURSIVE SumCounts(_, _)
\* the sum of the counts of by_year over the year keys in keys
SumCounts(by_year, keys) ==
    IF keys = {} THEN 0
    ELSE LET y == CHOOSE x \in keys : TRUE
         IN  by_year[y] + SumCounts(by_year, keys \ {y})

\* C23: get_stats reports as total_processed the number of entries of the
\* ledger, and a by_year whose counts sum to it: every entry is counted
\* under the key of its own year and under no other.
C23_StatsCountEveryEntryOnce ==
    ~IsNone(stats) =>
        LET ledger == load_history(ledger_file)
            by_year == Val(stats).by_year
        IN  /\ Val(stats).total_processed = Cardinality(DOMAIN ledger)
            /\ SumCounts(by_year, DOMAIN by_year) = Val(stats).total_processed
            /\ \A k \in DOMAIN ledger : ledger[k].year \in DOMAIN by_year
            /\ \A y \in DOMAIN by_year :
                 by_year[y] = Cardinality({ k \in DOMAIN ledger : ledger[k].year = y })

\* C23 witness: the ledger holds two entries of one year and one of another,
\* and get_stats has returned.
C23_Witness ==
    /\ ~IsNone(stats)
    /\ Val(stats).total_processed = 3
    /\ \E y1, y2 \in DOMAIN Val(stats).by_year :
         Val(stats).by_year[y1] = 2 /\ Val(stats).by_year[y2] = 1

\* the resolution of the entry's date fields has run
Resolved == dpc = "done" /\ ~IsNone(resolution)

\* the text of date field i of the entry
FieldText(i) == Val(entry_dates[i])

\* dateutil makes a date of the text of field i
Parses(i) == ~IsNone(entry_dates[i]) /\ ~IsNone(FieldText(i).parsed)

\* field i holds a text dateutil rejects
Unparsed(i) == ~IsNone(entry_dates[i]) /\ IsNone(FieldText(i).parsed)

\* the first four characters of the text of field i read as a year from
\* 2000 to 2100
SaneYear(i) ==
    /\ ~IsNone(FieldText(i).head4)
    /\ Val(FieldText(i).head4) >= 2000
    /\ Val(FieldText(i).head4) <= 2100

\* field i yields a date: parsed, or the year of the crude extraction
FieldYields(i) == Parses(i) \/ (Unparsed(i) /\ SaneYear(i))

\* the year field i yields
YieldedYear(i) ==
    IF Parses(i) THEN Val(FieldText(i).parsed).year ELSE Val(FieldText(i).head4)

\* the fields before i yield nothing
FirstYielding(i) ==
    FieldYields(i) /\ \A j \in FieldNames : j < i => ~FieldYields(j)

\* C24: the date of an entry is the one of the first of its six date fields,
\* in the order of date_fields, that yields; no later field overrides it,
\* and an entry none of whose fields yields has no date.
C24_FirstYieldingFieldWins ==
    Resolved =>
        /\ \A i \in FieldNames :
             FirstYielding(i) =>
                 /\ Val(resolution).year = Some(YieldedYear(i))
                 /\ Val(resolution).published_date
                      = (IF Parses(i) THEN FieldText(i).parsed ELSE None)
        /\ (\A i \in FieldNames : ~FieldYields(i)) => Val(resolution) = Unresolved

\* C24 witness: two fields yield different years, and the resolution has
\* taken the year of the earlier one.
C24_Witness ==
    /\ Resolved
    /\ \E i, j \in FieldNames :
         /\ i < j
         /\ FirstYielding(i)
         /\ FieldYields(j)
         /\ YieldedYear(i) # YieldedYear(j)
         /\ Val(resolution).year = Some(YieldedYear(i))

\* the month the crude extraction reads in the text of field i: characters
\* 6-7 when they read as a month from 1 to 12
CrudeMonth(i) ==
    IF /\ ~IsNone(FieldText(i).mid2)
       /\ Val(FieldText(i).mid2) >= 1
       /\ Val(FieldText(i).mid2) <= 12
    THEN FieldText(i).mid2
    ELSE None

\* no field before i yields: the loop reaches field i
Reached(i) == \A j \in FieldNames : j < i => ~FieldYields(j)

\* C28: the crude extraction on an unparsed field that the loop reaches
\* takes the year of the first four characters only if it is from 2000 to
\* 2100, and then the month of characters 6-7 only if it is from 1 to 12,
\* leaving the month absent otherwise and keeping the year; a year outside
\* the bound leaves the field unresolved, and the date is that of the next
\* field that yields, if any.
C28_CrudeExtractionBounds ==
    Resolved =>
        \A i \in FieldNames :
            (Unparsed(i) /\ Reached(i)) =>
                IF SaneYear(i)
                THEN Val(resolution) = [published_date |-> None,
                                        year |-> FieldText(i).head4,
                                        month |-> CrudeMonth(i)]
                ELSE /\ (\A j \in FieldNames : j > i => ~FieldYields(j))
                          => Val(resolution) = Unresolved
                     /\ \A j \in FieldNames :
                          (j > i /\ FirstYielding(j))
                              => Val(resolution).year = Some(YieldedYear(j))

\* C28 witness: the first text reads as the year 2101 and is passed over,
\* the next reads as 2100 with a month of 13, and the entry has the year
\* 2100 and no month.
C28_Witness ==
    /\ Resolved
    /\ \E i, j \in FieldNames :
         /\ i < j
         /\ Unparsed(i) /\ Reached(i) /\ ~SaneYear(i)
         /\ FieldText(i).head4 = Some(SaneYearMax + 1)
         /\ Unparsed(j) /\ FirstYielding(j)
         /\ FieldText(j).head4 = Some(SaneYearMax)
         /\ FieldText(j).mid2 = Some(13)
         /\ Val(resolution) = [published_date |-> None,
                               year |-> Some(SaneYearMax),
                               month |-> None]

(***************************************************************************)
(* The candidate is_in_date_range decides on (checked under SpecRange).    *)
(***************************************************************************)
\* the call with other values for the three candidate arguments
InRangeFor(pd, yfb, mfb) ==
    is_in_date_range(pd, yfb, mfb, start_year, start_month, end_year, end_month)

\* C25: the candidate is paper_date's (year, month) whenever paper_date is
\* given, whatever the two fallbacks are; otherwise it is paper_year_fallback
\* with paper_month_fallback, or with January when that is absent; and the
\* decision is the one for that (year, month) pair and the range.
C25_DecisionOnResolvedPair ==
    (RangeReturned /\ Resolvable)
    => /\ Val(filter_result)
            = InRangeFor(Some([year |-> CandYear, month |-> CandMonth]), None, None)
       /\ Val(filter_result) = InRangeFor(None, Some(CandYear), Some(CandMonth))
       /\ ~IsNone(paper_date)
            => \A yfb \in Optional(Years), mfb \in Optional(MonthSample) :
                   InRangeFor(paper_date, yfb, mfb) = Val(filter_result)

\* C25 witness: a candidate with a paper_date was included although the
\* fallback year and month it also carries are outside the range.
C25_Witness ==
    /\ RangeReturned
    /\ ~IsNone(paper_date)
    /\ ~IsNone(paper_year_fallback)
    /\ ~IsNone(paper_month_fallback)
    /\ Val(filter_result) = TRUE
    /\ ~InRangeFor(None, paper_year_fallback, paper_month_fallback)

(***************************************************************************)
(* What a feed contributes to the merged list (checked under Spec).        *)
(***************************************************************************)
\* the number of papers of the list ps that feed f contributed
Contributed(ps, f) ==
    Cardinality({ i \in 1 .. Len(ps) : ps[i].research_domain = f })

\* C26: whatever max_per_feed is, no feed contributes more than max_per_feed
\* papers to the merged list.
C26_AtMostMaxPerFeed ==
    \A f \in 1 .. NumFeeds :
        /\ Contributed(all_papers, f) <= max_per_feed
        /\ Contributed(unique_papers, f) <= max_per_feed

\* the year of a paper is at least start_year
YearInRange(p) ==
    ~IsNone(IntOfStr(p.year)) /\ Val(IntOfStr(p.year)) >= start_year

\* C27: no paper is given an invented year: line 336 never puts start_year in
\* place of a missing year, because an entry without a date does not pass
\* the filter, and the year of every paper, taken from a date field of its
\* entry, is at least start_year.
C27_NoInventedYear ==
    /\ ~year_defaulted
    /\ \A i \in 1 .. Len(domain_papers) : YearInRange(domain_papers[i])
    /\ \A i \in 1 .. Len(all_papers) : YearInRange(all_papers[i])
    /\ \A i \in 1 .. Len(unique_papers) : YearInRange(unique_papers[i])

\* C27 witness: a run that read an entry without any date has returned a
\* paper.
C27_Witness ==
    /\ apc = "done"
    /\ undated_seen
    /\ unique_papers # <<>>
    /\ ~year_defaulted

(***************************************************************************)
(* Two concurrent calls of filter_new_papers (checked under                *)
(* SpecConcurrent).                                                        *)
(***************************************************************************)
BothReturned == \A p \in Procs : cpc[p] = "returned"

\* the identifiers process p's call returned as new
ReturnedNew(p) == { PaperId(cnew[p][i]) : i \in 1 .. Len(cnew[p]) }

\* an identifier some call returned as new is not in the ledger file
EntryLost == \E p \in Procs : ReturnedNew(p) \ LedgerKeys(ledger_file) # {}

\* C29: two concurrent calls can lose entries without any error: once both
\* have returned, the ledger file is the staged copy of the call that wrote
\* last and nothing else, so an identifier the other call returned as new is
\* in the file only if the last writer had it too.
C29_LastWriterWins ==
    BothReturned =>
        /\ ledger_file = JsonFile(cupdated[Val(cwriter)])
        /\ \A p \in Procs :
             ReturnedNew(p) \cap LedgerKeys(ledger_file)
                 = ReturnedNew(p) \cap DOMAIN cupdated[Val(cwriter)]

\* C29 witness: both calls loaded the same ledger, both returned, and an
\* identifier one of them returned as new is absent from the ledger file.
C29_Witness ==
    /\ BothReturned
    /\ chistory[1] = chistory[2]
    /\ EntryLost

(***************************************************************************)
(* Repeated identifiers (checked under SpecTracker).                       *)
(***************************************************************************)
\* the identifiers of the papers of a list, in order
IdsOf(ps) == [i \in 1 .. Len(ps) |-> PaperId(ps[i])]

\* C30: over the calls made since the last reset no identifier is returned
\* as new twice: not twice by one call, for a batch that holds it twice, and
\* not by a call and again by the next.
C30_NewAtMostOnce ==
    tpc = "returned" =>
        /\ \A i, j \in 1 .. Len(new_papers) :
             i # j => IdsOf(new_papers)[i] # IdsOf(new_papers)[j]
        /\ (~IsNone(last_call) /\ ~reset_since) =>
             \A i \in 1 .. Len(new_papers), j \in 1 .. Len(Val(last_call).result) :
                 IdsOf(new_papers)[i] # IdsOf(Val(last_call).result)[j]

====
